---- MODULE Spec2Model ----
(***************************************************************************)
(* Model of the job ledger (website_crawler/job.py: DownloadJob,           *)
(* JobManager) and of the runner loop (website_crawler/runner.py: Runner)  *)
(* of WebsiteCrawler, with the stop request of the Downloader              *)
(* (website_crawler/downloader.py: stop_runner).                           *)
(*                                                                         *)
(* A URL string is a sequence of characters.  Every runner is a thread;    *)
(* one action is one uninterrupted stretch of a thread: a critical section *)
(* of the JobManager's mutex, or a read or a write of Runner.state.        *)
(*                                                                         *)
(* Spec and FairSpec are crawls of any site, SiteSpec is the crawl of a    *)
(* fixed site in which every fetch returns 200, and ProcessorSpec is one   *)
(* DownloadProcessor.run (website_crawler/processor.py) on a fresh job.    *)
(***************************************************************************)
EXTENDS Naturals, Sequences, FiniteSets, TLC

\* ------------------------------------------------------------------ bounds
\* number of DownloadJob instances a crawl constructs
MaxJobs == 3

JobIds == 1..MaxJobs

\* the runner threads the Downloader has started
Runners == {1, 2}

\* URL strings the crawl meets: the seeded page, and a page that is referenced
\* with and without a fragment
Urls == { <<"a">>, <<"b">>, <<"b", "#", "x">> }

\* the URL string the Downloader seeds the crawl with
Seed == <<"a">>

\* HTTP status codes a job can carry; 0 stands for None (no response)
Codes == {0, 200, 404}

VARIABLES
    options,         \* Runner.options: the keys of the dict of keyword arguments
    main,            \* the thread calling Downloader.stop_all_runners: its position in it
    worker,          \* a DownloadProcessor run on its own: its job, its descendants,
                     \* the response, the position in run and run's result
    site,            \* the crawled site: the references of each page (fixed sites only)
    full,            \* JobManager._full
    crash_on_error,  \* Runner.crash_on_error (the Downloader gives every runner the same)
    queue,           \* JobManager._queue: FIFO of jobs
    reserved,        \* JobManager._reserved: list of jobs (full) or URL strings
    storage,         \* JobManager._storage: dict URL string -> job (full) or status code
    lock,            \* JobManager._lock: 0 when free, else the runner holding it
    state,           \* Runner.state
    exception,       \* Runner.exception: whether an exception is stored (not None)
    pc,              \* position of each runner's thread in Runner.run
    current_job,     \* Runner.run's local current_job
    descendants,     \* worker.descendants still to be put (URL strings of the jobs)
    references,      \* current_job.references still to be put
    item,            \* the job a runner is putting, between check and append
    nextId,          \* number of the next DownloadJob instance to be constructed
    handed,          \* history: the jobs returned by get (id and URL string)
    completeCalls,   \* history: number of complete calls per job id
    observedGap      \* history: a ledger operation ran while another runner's get
                     \* had popped a job but not yet reserved it

vars == << options, main, worker, site, full, crash_on_error, queue, reserved,
           storage, lock, state, exception, pc, current_job, descendants,
           references, item, nextId, handed, completeCalls, observedGap >>

ledger == << queue, reserved, storage >>

\* ------------------------------------------------------------ DownloadJob

\* position of the first '#' of a URL string, 0 if there is none
HashPos(s) ==
    IF \E i \in 1..Len(s) : s[i] = "#"
    THEN CHOOSE i \in 1..Len(s) : s[i] = "#" /\ \A k \in 1..(i - 1) : s[k] # "#"
    ELSE 0

\* urllib.parse.urlparse, as far as the ledger looks at it: the part before
\* the first '#' and the fragment after it
urlparse(s) ==
    IF HashPos(s) = 0
    THEN [url |-> s, fragment |-> << >>]
    ELSE [url |-> SubSeq(s, 1, HashPos(s) - 1),
          fragment |-> SubSeq(s, HashPos(s) + 1, Len(s))]

\* ParseResult._replace(fragment="")
ReplaceFragment(u) == [u EXCEPT !.fragment = << >>]

\* DownloadJob.__init__ for a URL string
DownloadJob(id, remote) ==
    [id |-> id, remote_path |-> remote, remote_url |-> urlparse(remote),
     response_code |-> 0]

NoJob == [id |-> 0]

IsJob(x) == "remote_url" \in DOMAIN x

\* a URL string as an element of _reserved
Str(s) == [str |-> s]

\* DownloadJob.__eq__
JobEq(a, b) == ReplaceFragment(a.remote_url) = ReplaceFragment(b.remote_url)

\* Python's == between two list elements: __eq__ between two jobs, string
\* equality between two strings, False between a job and a string
\* (__eq__ returns NotImplemented, and the two are not the same object)
PyEq(x, y) ==
    IF IsJob(x) /\ IsJob(y) THEN JobEq(x, y)
    ELSE IF ~IsJob(x) /\ ~IsJob(y) THEN x = y
    ELSE FALSE

\* x in list
InList(x, l) == \E i \in 1..Len(l) : PyEq(l[i], x)

\* list.remove(x): drop the first element equal to x
ListRemove(l, x) ==
    LET i == CHOOSE k \in 1..Len(l) :
                 PyEq(l[k], x) /\ \A m \in 1..(k - 1) : ~PyEq(l[m], x)
    IN  SubSeq(l, 1, i - 1) \o SubSeq(l, i + 1, Len(l))

\* ------------------------------------------------------------- JobManager

\* JobManager.check: the job was neither reserved nor processed yet
check(it) ==
    IF full
    THEN ~InList(it, reserved)
         /\ ~(\E k \in DOMAIN storage : JobEq(storage[k], it))
    ELSE ~InList(Str(it.remote_path), reserved)
         /\ it.remote_path \notin DOMAIN storage

\* what JobManager.get appends to _reserved
ReservedEntry(it) == IF full THEN it ELSE Str(it.remote_path)

\* (mutant) get waits for the queue without holding the mutex
GetHolderNobody(r) == 0

\* the holder of the mutex while get runs
GetHolder(r) == r

\* JobManager.complete: _reserved afterwards
CompleteReserved(it) ==
    IF InList(it, reserved) THEN ListRemove(reserved, it) ELSE reserved

\* (mutant) complete forgets to record the job
CompleteStorageForgets(it) == storage

\* JobManager.complete: _storage afterwards
CompleteStorage(it) ==
    [k \in DOMAIN storage \cup {it.remote_path} |->
        IF k = it.remote_path
        THEN (IF full THEN it ELSE it.response_code)
        ELSE storage[k]]

\* ---------------------------------------------------------------- history

\* another runner's get has taken a job out of pending and not reserved it yet
Gap(r) == \E r2 \in Runners \ {r} : pc[r2] = "reserve"

\* job instances that the processors' results still ask to create
Outstanding ==
    LET RECURSIVE Sum(_)
        Sum(S) == IF S = {} THEN 0
                  ELSE LET r == CHOOSE x \in S : TRUE
                       IN  Len(descendants[r]) + Cardinality(references[r])
                           + Sum(S \ {r})
    IN  Sum(Runners)

\* ------------------------------------------------------------------- Init

\* a crawl of any site: a page's status and references are whatever the
\* processor meets
AnySite == [u \in Urls |-> {}]

\* nobody calls Downloader.stop_all_runners
NotCalled == [pc |-> "none", key |-> 0]

\* no DownloadProcessor is run on its own
NoWorker == [pc |-> "none"]

Init ==
    /\ worker = NoWorker
    /\ options = {}
    /\ main = NotCalled
    /\ site = AnySite
    /\ full \in BOOLEAN
    /\ crash_on_error \in BOOLEAN
    /\ queue = << DownloadJob(1, Seed) >>
    /\ nextId = 2
    /\ reserved = << >>
    /\ storage = << >>
    /\ lock = 0
    /\ state = [r \in Runners |-> "CREATED"]
    /\ exception = [r \in Runners |-> FALSE]
    /\ pc = [r \in Runners |-> "created"]
    /\ current_job = [r \in Runners |-> NoJob]
    /\ descendants = [r \in Runners |-> << >>]
    /\ references = [r \in Runners |-> {}]
    /\ item = [r \in Runners |-> NoJob]
    /\ handed = {}
    /\ completeCalls = [i \in JobIds |-> 0]
    /\ observedGap = FALSE

\* ------------------------------------------------------------- Runner.run

\* run's first statements: the thread has started, the runner is working
Start(r) ==
    /\ pc[r] = "created"
    /\ state' = [state EXCEPT ![r] = "WORKING"]
    /\ pc' = [pc EXCEPT ![r] = "while"]
    /\ UNCHANGED << options, main, worker, site, full, crash_on_error,
                    exception, queue, reserved, storage, lock, current_job,
                    descendants, references, item, nextId, handed,
                    completeCalls, observedGap >>

\* (mutant) a runner that waited once leaves the loop
LoopConditionWorkingOnly(s) == s = "WORKING"

\* the loop condition: state in (WORKING, WAITING)
LoopCondition(s) == s \in {"WORKING", "WAITING"}

\* while self.state in (RunnerState.WORKING, RunnerState.WAITING)
While(r) ==
    /\ pc[r] = "while"
    /\ pc' = [pc EXCEPT ![r] = IF LoopCondition(state[r]) THEN "get" ELSE "exit"]
    /\ UNCHANGED << options, main, worker, site, full, crash_on_error,
                    exception, queue, reserved, storage, lock, state,
                    current_job, descendants, references, item, nextId,
                    handed, completeCalls, observedGap >>

\* (mutant) queue.get returns the head and leaves it in the queue
QueueAfterGetKeepsHead == queue

\* queue.get: the head leaves the queue
QueueAfterGet == Tail(queue)

\* JobManager.get, first half: take the mutex and pop the head of the queue
GetPop(r) ==
    /\ pc[r] = "get"
    /\ lock = 0
    /\ queue # << >>
    /\ lock' = GetHolder(r)
    /\ current_job' = [current_job EXCEPT ![r] = Head(queue)]
    /\ queue' = QueueAfterGet
    /\ pc' = [pc EXCEPT ![r] = "reserve"]
    /\ UNCHANGED << options, main, worker, site, full, crash_on_error,
                    exception, reserved, storage, state, descendants,
                    references, item, nextId, handed, completeCalls,
                    observedGap >>

\* JobManager.get, second half: reserve, release the mutex, return the job
GetReserve(r) ==
    /\ pc[r] = "reserve"
    /\ lock = GetHolder(r)
    /\ reserved' = Append(reserved, ReservedEntry(current_job[r]))
    /\ lock' = 0
    /\ handed' = handed \cup { [id |-> current_job[r].id,
                              remote_path |-> current_job[r].remote_path] }
    /\ pc' = [pc EXCEPT ![r] = "got"]
    /\ UNCHANGED << options, main, worker, site, full, crash_on_error,
                    exception, queue, storage, state, current_job,
                    descendants, references, item, nextId, completeCalls,
                    observedGap >>

\* JobManager.get on an empty queue: the mutex is held for the whole wait, so
\* nothing can be put meanwhile, and queue.Empty is raised at the timeout
GetTimeout(r) ==
    /\ pc[r] = "get"
    /\ lock = 0
    /\ queue = << >>
    /\ pc' = [pc EXCEPT ![r] = "empty_if"]
    /\ UNCHANGED << options, main, worker, site, full, crash_on_error,
                    exception, queue, reserved, storage, lock, state,
                    current_job, descendants, references, item, nextId,
                    handed, completeCalls, observedGap >>

\* after get returned: self.state = WORKING (and the logger is rebound)
Got(r) ==
    /\ pc[r] = "got"
    /\ state' = [state EXCEPT ![r] = "WORKING"]
    /\ pc' = [pc EXCEPT ![r] = "process"]
    /\ UNCHANGED << options, main, worker, site, full, crash_on_error,
                    exception, queue, reserved, storage, lock, current_job,
                    descendants, references, item, nextId, handed,
                    completeCalls, observedGap >>

\* except queue.Empty: the test of self.state
EmptyIf(r) ==
    /\ pc[r] = "empty_if"
    /\ pc' = [pc EXCEPT ![r] =
                 IF state[r] = "WORKING" THEN "set_waiting" ELSE "while"]
    /\ UNCHANGED << options, main, worker, site, full, crash_on_error,
                    exception, queue, reserved, storage, lock, state,
                    current_job, descendants, references, item, nextId,
                    handed, completeCalls, observedGap >>

\* except queue.Empty: self.state = WAITING, continue
SetWaiting(r) ==
    /\ pc[r] = "set_waiting"
    /\ state' = [state EXCEPT ![r] = "WAITING"]
    /\ pc' = [pc EXCEPT ![r] = "while"]
    /\ UNCHANGED << options, main, worker, site, full, crash_on_error,
                    exception, queue, reserved, storage, lock, current_job,
                    descendants, references, item, nextId, handed,
                    completeCalls, observedGap >>

\* where the thread is after a put: in the for-loops while a job is left to
\* put, else at the end of the try block
AfterPut(desc, refs) == IF desc = << >> /\ refs = {} THEN "finally" ELSE "put"

\* what DownloadProcessor.run can leave behind: its result, the job's status
\* code, its descendants and the job's references
\*   True : status 200, any references, no descendant
\*   False: a TLS error (no status, at most one descendant for another URL)
\*          or a status other than 200 (no descendant)
\*   raise: any other exception, before or after the response arrived
ProcessorResults(job) ==
    { [result |-> "True", code |-> 200, desc |-> << >>, refs |-> R] :
          R \in SUBSET Urls }
    \cup { [result |-> "False", code |-> 0, desc |-> d, refs |-> {}] :
          d \in {<< >>} \cup { << u >> : u \in Urls \ {job.remote_path} } }
    \cup { [result |-> "False", code |-> 404, desc |-> << >>, refs |-> {}] }
    \cup { [result |-> "raise", code |-> c, desc |-> << >>, refs |-> {}] :
          c \in {0, 200} }

\* worker = DownloadProcessor(current_job, options); worker.run()
Process(r) ==
    /\ pc[r] = "process"
    /\ \E res \in ProcessorResults(current_job[r]) :
          LET job == [current_job[r] EXCEPT !.response_code = res.code] IN
          /\ (nextId - 1) + Outstanding + Len(res.desc) + Cardinality(res.refs)
                 <= MaxJobs
          /\ current_job' = [current_job EXCEPT ![r] = job]
          \* _reserved holds the same object in full mode
          /\ reserved' = [i \in DOMAIN reserved |->
                             IF IsJob(reserved[i]) /\ reserved[i].id = job.id
                             THEN job ELSE reserved[i]]
          /\ descendants' = [descendants EXCEPT ![r] = res.desc]
          /\ references' = [references EXCEPT ![r] = res.refs]
          /\ pc' = [pc EXCEPT ![r] =
                       IF res.result = "raise" THEN "except"
                       ELSE AfterPut(res.desc, res.refs)]
    /\ UNCHANGED << options, main, worker, site, full, crash_on_error,
                    exception, queue, storage, lock, state, item, nextId,
                    handed, completeCalls, observedGap >>

\* the next job of the two for-loops: the descendants in order, then the
\* references in the order of the set
NextPuts(r) ==
    IF descendants[r] # << >> THEN { Head(descendants[r]) } ELSE references[r]

\* job_manager.put(job), first half: the job is made (a descendant by the
\* processor, a reference by current_job.copy) and JobManager.check decides
PutCheck(r) ==
    /\ pc[r] = "put"
    /\ lock = 0
    /\ \E u \in NextPuts(r) :
          LET it == DownloadJob(nextId, u) IN
          /\ nextId' = nextId + 1
          /\ IF descendants[r] # << >>
             THEN /\ descendants' = [descendants EXCEPT ![r] = Tail(@)]
                  /\ UNCHANGED references
             ELSE /\ references' = [references EXCEPT ![r] = @ \ {u}]
                  /\ UNCHANGED descendants
          /\ IF check(it)
             THEN /\ item' = [item EXCEPT ![r] = it]
                  /\ pc' = [pc EXCEPT ![r] = "append"]
             ELSE /\ UNCHANGED item
                  /\ pc' = [pc EXCEPT ![r] =
                               AfterPut(descendants'[r], references'[r])]
    /\ observedGap' = (observedGap \/ Gap(r))
    /\ UNCHANGED << options, main, worker, site, full, crash_on_error,
                    exception, queue, reserved, storage, lock, state,
                    current_job, handed, completeCalls >>

\* job_manager.put(job), second half: the queue's put under the mutex
PutAppend(r) ==
    /\ pc[r] = "append"
    /\ lock = 0
    /\ queue' = Append(queue, item[r])
    /\ item' = [item EXCEPT ![r] = NoJob]
    /\ pc' = [pc EXCEPT ![r] = AfterPut(descendants[r], references[r])]
    /\ observedGap' = (observedGap \/ Gap(r))
    /\ UNCHANGED << options, main, worker, site, full, crash_on_error,
                    exception, reserved, storage, lock, state, current_job,
                    descendants, references, nextId, handed, completeCalls >>

\* (mutant) the re-raise leaves run without the finally block
AfterExceptSkipsFinally == IF crash_on_error THEN "dead" ELSE "finally"

\* (mutant) the except block re-raises whatever crash_on_error says
AfterExceptAlwaysRaises == "finally_raise"

\* where the except block leaves for: the finally block, re-raising afterwards
\* if crash_on_error is set
AfterExcept == IF crash_on_error THEN "finally_raise" ELSE "finally"

\* except Exception: keep the exception, crash if crash_on_error
Except(r) ==
    /\ pc[r] = "except"
    /\ exception' = [exception EXCEPT ![r] = TRUE]
    /\ state' = [state EXCEPT ![r] =
                    IF crash_on_error THEN "CRASHED" ELSE state[r]]
    /\ pc' = [pc EXCEPT ![r] = AfterExcept]
    /\ UNCHANGED << options, main, worker, site, full, crash_on_error, queue,
                    reserved, storage, lock, current_job, descendants,
                    references, item, nextId, handed, completeCalls,
                    observedGap >>

\* finally: job_manager.complete(current_job); then the loop goes on, or the
\* exception leaves run
Finally(r) ==
    /\ pc[r] \in {"finally", "finally_raise"}
    /\ lock = 0
    /\ reserved' = CompleteReserved(current_job[r])
    /\ storage' = CompleteStorage(current_job[r])
    /\ completeCalls' = [completeCalls EXCEPT ![current_job[r].id] = @ + 1]
    /\ current_job' = [current_job EXCEPT ![r] = NoJob]
    /\ pc' = [pc EXCEPT ![r] = IF pc[r] = "finally" THEN "while" ELSE "dead"]
    /\ observedGap' = (observedGap \/ Gap(r))
    /\ UNCHANGED << options, main, worker, site, full, crash_on_error,
                    exception, queue, lock, state, descendants, references,
                    item, nextId, handed >>

\* after the loop: self.state = EXITED
Exit(r) ==
    /\ pc[r] = "exit"
    /\ state' = [state EXCEPT ![r] = "EXITED"]
    /\ pc' = [pc EXCEPT ![r] = "done"]
    /\ UNCHANGED << options, main, worker, site, full, crash_on_error,
                    exception, queue, reserved, storage, lock, current_job,
                    descendants, references, item, nextId, handed,
                    completeCalls, observedGap >>

\* ------------------------------------------------------------- Downloader

\* Downloader.stop_runner: the runner's state is set to the code for 'quit
\* requested', whatever the state was; Runner.run's loop condition takes it
\* like ENDING
Stop(r) ==
    /\ state' = [state EXCEPT ![r] = "ENDING"]
    /\ UNCHANGED << options, main, worker, site, full, crash_on_error,
                    exception, queue, reserved, storage, lock, pc,
                    current_job, descendants, references, item, nextId,
                    handed, completeCalls, observedGap >>

\* ---------------------------------------------------------- specification

RunnerStep(r) ==
    \/ Start(r)
    \/ While(r)
    \/ GetPop(r)
    \/ GetReserve(r)
    \/ GetTimeout(r)
    \/ Got(r)
    \/ EmptyIf(r)
    \/ SetWaiting(r)
    \/ Process(r)
    \/ PutCheck(r)
    \/ PutAppend(r)
    \/ Except(r)
    \/ Finally(r)
    \/ Exit(r)

Next ==
    \/ \E r \in Runners : RunnerStep(r)
    \/ \E r \in Runners : Stop(r)

Spec == Init /\ [][Next]_vars

\* ------------------------------------------------- crawl of a fixed site

\* sites in which every fetch returns 200: a root page a linking one page b; a
\* and b linking each other; a linking b with and without a fragment
Sites ==
    { [u \in Urls |-> IF u = <<"a">> THEN {<<"b">>} ELSE {}],
      [u \in Urls |-> IF u = <<"a">> THEN {<<"b">>}
                      ELSE IF u = <<"b">> THEN {<<"a">>} ELSE {}],
      [u \in Urls |-> IF u = <<"a">> THEN {<<"b">>, <<"b", "#", "x">>}
                      ELSE {}] }

\* the URL strings reachable from the seed through the site's references
Reachable ==
    LET Step(S) == S \cup UNION { site[u] : u \in S }
        RECURSIVE Closure(_)
        Closure(S) == IF Step(S) = S THEN S ELSE Closure(Step(S))
    IN  Closure({Seed})

SiteInit ==
    /\ worker = NoWorker
    /\ options = {}
    /\ main = NotCalled
    /\ site \in Sites
    /\ full \in BOOLEAN
    /\ crash_on_error \in BOOLEAN
    /\ queue = << DownloadJob(1, Seed) >>
    /\ nextId = 2
    /\ reserved = << >>
    /\ storage = << >>
    /\ lock = 0
    /\ state = [r \in Runners |-> "CREATED"]
    /\ exception = [r \in Runners |-> FALSE]
    /\ pc = [r \in Runners |-> "created"]
    /\ current_job = [r \in Runners |-> NoJob]
    /\ descendants = [r \in Runners |-> << >>]
    /\ references = [r \in Runners |-> {}]
    /\ item = [r \in Runners |-> NoJob]
    /\ handed = {}
    /\ completeCalls = [i \in JobIds |-> 0]
    /\ observedGap = FALSE

\* worker.run() on a page of the site: status 200, the handler finds the page's
\* references, run returns True
SiteProcess(r) ==
    /\ Process(r)
    /\ current_job'[r].response_code = 200
    /\ descendants'[r] = << >>
    /\ references'[r] = site[current_job[r].remote_path]
    /\ pc'[r] # "except"

SiteStep(r) ==
    \/ Start(r)
    \/ While(r)
    \/ GetPop(r)
    \/ GetReserve(r)
    \/ GetTimeout(r)
    \/ Got(r)
    \/ EmptyIf(r)
    \/ SetWaiting(r)
    \/ SiteProcess(r)
    \/ PutCheck(r)
    \/ PutAppend(r)
    \/ Finally(r)

SiteNext == \E r \in Runners : SiteStep(r)

\* the crawl of a fixed site by runners that nobody stops, every thread
\* eventually taking the step it can take
SiteSpec ==
    SiteInit /\ [][SiteNext]_vars /\ \A r \in Runners : WF_vars(SiteStep(r))

\* a crawl in which the first runner is never asked to stop
NextUnstopped ==
    \/ \E r \in Runners : RunnerStep(r)
    \/ \E r \in Runners \ {1} : Stop(r)

\* every thread that can take a step eventually takes one: get waits no longer
\* than its timeout, the mutex is released after every critical section
FairSpec ==
    Init /\ [][NextUnstopped]_vars /\ \A r \in Runners : WF_vars(RunnerStep(r))

TypeOK ==
    /\ lock \in {0} \cup Runners
    /\ nextId <= MaxJobs + 1

\* ------------------------------------------------------------ dedup keys

\* the dedup key of a URL string: the parsed URL without its fragment
DedupKey(s) == ReplaceFragment(urlparse(s))

\* the URL string of an entry of _reserved
EntryPath(e) == IF IsJob(e) THEN e.remote_path ELSE e.str

PendingKeys == { DedupKey(queue[i].remote_path) : i \in DOMAIN queue }
ReservedKeys == { DedupKey(EntryPath(reserved[i])) : i \in DOMAIN reserved }
CompletedKeys == { DedupKey(k) : k \in DOMAIN storage }
AllKeys == { DedupKey(u) : u \in Urls }

\* the positions of Runner.run at which the runner holds a job that get returned
HoldingPcs == {"got", "process", "put", "append", "except", "finally",
               "finally_raise"}

Holding(id) ==
    \E r \in Runners : pc[r] \in HoldingPcs /\ current_job[r].id = id

\* runner r's step is the call of JobManager.complete
CompleteStep(r) ==
    /\ pc[r] \in {"finally", "finally_raise"}
    /\ pc'[r] \notin {"finally", "finally_raise"}

\* runner r's step is the check of a put for the URL string u
PutChecked(r, u) ==
    /\ pc[r] = "put"
    /\ u \in NextPuts(r)
    /\ u \notin NextPuts(r)'

\* runner r's step is the append of a put
AppendStep(r) == pc[r] = "append" /\ pc'[r] # "append"

\* ------------------------------------------------------------------ claims

\* C1: no dedup key is handed out by get more than once during a crawl.
C1_NoKeyHandedTwice ==
    \A h1, h2 \in handed :
        DedupKey(h1.remote_path) = DedupKey(h2.remote_path) => h1 = h2

\* job id is in pending
Pending(id) == \E i \in DOMAIN queue : queue[i].id = id

\* job id was returned by get and is recorded in completed
Recorded(id) ==
    \E h \in handed :
        /\ h.id = id
        /\ completeCalls[id] > 0
        /\ h.remote_path \in DOMAIN storage

C3_CompleteExactlyOnce ==
    /\ \A h \in handed :
          completeCalls[h.id] = IF Holding(h.id) THEN 0 ELSE 1
    /\ \A id \in JobIds :
          (\A h \in handed : h.id # id) => completeCalls[id] = 0

\* a runner crashed on the only job handed out so far (crash_on_error set), and
\* the job was completed once
C3_Witness ==
    /\ \E r \in Runners : pc[r] = "dead" /\ state[r] = "CRASHED"
    /\ Cardinality(handed) = 1
    /\ \A h \in handed : completeCalls[h.id] = 1

\* C4: put never appends a job to pending while the job's dedup key is in
\* reserved or completed, and a put that is dropped leaves the ledger alone.
C4_PutNeverAppendsKnownKey ==
    [][\A r \in Runners :
          /\ AppendStep(r) =>
                DedupKey(item[r].remote_path) \notin ReservedKeys \cup CompletedKeys
          /\ (\E u \in Urls : PutChecked(r, u)) /\ pc'[r] # "append" =>
                UNCHANGED ledger]_vars

\* C5: after complete(job) the job's key is no longer in reserved and is in
\* completed, and the reserved count has dropped by one, in both storage modes.
C5_CompleteMovesKey ==
    [][\A r \in Runners :
          CompleteStep(r) =>
              LET k == DedupKey(current_job[r].remote_path) IN
              /\ k \notin ReservedKeys'
              /\ k \in CompletedKeys'
              /\ Len(reserved') = Len(reserved) - 1]_vars

\* C6: whenever no ledger operation is in progress, every dedup key is in at
\* most one of pending, reserved and completed.
C6_KeyInOneCollection ==
    lock = 0 =>
        \A k \in AllKeys :
            /\ ~(k \in PendingKeys /\ k \in ReservedKeys)
            /\ ~(k \in PendingKeys /\ k \in CompletedKeys)
            /\ ~(k \in ReservedKeys /\ k \in CompletedKeys)

\* C7: get takes a job out of pending and records it in reserved as one atomic
\* step: no check, put or complete of another runner runs in between, and a get
\* that times out changes nothing in the ledger.
C7_GetIsAtomic ==
    [][/\ ~observedGap'
       /\ \A r \in Runners :
             (pc[r] = "get" /\ pc'[r] = "empty_if") => UNCHANGED ledger]_vars

\* a get has popped a job and not reserved it yet while another runner is about
\* to check, put or complete
C7_Witness ==
    \E r1, r2 \in Runners :
        /\ r1 # r2
        /\ pc[r1] = "reserve"
        /\ pc[r2] \in {"put", "append", "finally", "finally_raise"}

\* C8: a put of a job whose URL differs from that of a reserved or completed
\* job only in its fragment is dropped.
C8_FragmentPutDropped ==
    [][\A r \in Runners : \A u \in Urls :
          (PutChecked(r, u) /\ DedupKey(u) \in ReservedKeys \cup CompletedKeys)
              => pc'[r] # "append"]_vars

\* C9: no key is lost from the ledger: between ledger operations, the key of
\* every job that get returned is in reserved until its complete call, and in
\* completed from then on.
C9_NoKeyLost ==
    lock = 0 =>
        \A h \in handed :
            /\ completeCalls[h.id] = 0 =>
                  DedupKey(h.remote_path) \in ReservedKeys
            /\ completeCalls[h.id] > 0 =>
                  DedupKey(h.remote_path) \in CompletedKeys

\* a key has gone all the way from pending to completed
C9_Witness ==
    \E h \in handed :
        /\ completeCalls[h.id] = 1
        /\ DedupKey(h.remote_path) \in CompletedKeys
        /\ DedupKey(h.remote_path) \notin PendingKeys

\* the state changes C10 allows
AllowedChange(s, t) ==
    \/ s = t
    \/ s = "CREATED" /\ t = "WORKING"
    \/ s = "WORKING" /\ t = "WAITING"
    \/ s = "WAITING" /\ t = "WORKING"
    \/ s \in {"WORKING", "WAITING"} /\ t = "ENDING"
    \/ s = "ENDING" /\ t = "EXITED"
    \/ s \notin {"EXITED", "CRASHED"} /\ t = "CRASHED"

\* C10: a runner's state changes only along Created -> Working, Working ->
\* Waiting, Waiting -> Working, Working/Waiting -> Ending, Ending -> Exited, or
\* into Crashed; Ending never goes back to Working or Waiting, and Exited and
\* Crashed never change again.
C10_StrictProgression ==
    [][\A r \in Runners : AllowedChange(state[r], state'[r])]_vars

\* runner r's step is the first half of JobManager.get: a job leaves pending
DequeueStep(r) == pc[r] = "get" /\ pc'[r] = "reserve"

\* C11: once a runner's state was set to Ending by a stop request, the runner
\* dequeues no further job.
C11_StoppedRunnerDequeuesNothing ==
    [][\A r \in Runners : state[r] = "ENDING" => ~DequeueStep(r)]_vars

\* runner r's thread has left Runner.run by the re-raise of runner.py:105
Crashed(r) == pc[r] = "dead"

\* C12: a runner's state is Crashed only if crash_on_error is set and the
\* runner caught an exception while handling a job (so with crash_on_error
\* unset no runner is ever Crashed), and a runner whose thread ended by the
\* re-raise is in state Crashed, not Exited.
C12_CrashedOnlyOnError ==
    \A r \in Runners :
        /\ state[r] = "CRASHED" =>
              crash_on_error /\ pc[r] \in {"finally_raise", "dead"}
        /\ Crashed(r) => state[r] = "CRASHED"

\* runner r's step is the except block of Runner.run
ExceptStep(r) == pc[r] = "except" /\ pc'[r] # "except"

CurrentKey(r) == DedupKey(current_job[r].remote_path)

\* every put of the job runner r holds comes before its complete: nothing is
\* left to put when complete is called after the processor returned
PutsBeforeComplete(r) ==
    CompleteStep(r) =>
        descendants[r] = << >> /\ references[r] = {} /\ item[r] = NoJob

\* the key of the job runner r holds is reserved while the runner puts
ReservedWhilePutting(r) ==
    pc[r] \in {"put", "append"} => CurrentKey(r) \in ReservedKeys

\* a put of runner r for the key of the job it holds is dropped
SelfReferenceDropped(r) ==
    \A u \in Urls :
        (PutChecked(r, u) /\ DedupKey(u) = CurrentKey(r)) => pc'[r] # "append"

\* C14: after the processor returned, the runner puts every descendant and
\* every reference before it completes the current job; the current job's key is
\* reserved during these puts, and a reference to the current page itself is
\* not enqueued again.
C14_PutsBeforeCompleteDropSelf ==
    [][\A r \in Runners :
          /\ PutsBeforeComplete(r)
          /\ ReservedWhilePutting(r)
          /\ SelfReferenceDropped(r)]_vars

\* the ids of the DownloadJob instances a runner can reach without holding
\* them as its current job: those in pending and those being put
Obtainable ==
    { queue[i].id : i \in DOMAIN queue }
        \cup { item[r].id : r \in { q \in Runners : IsJob(item[q]) } }

\* C15: no DownloadJob instance is held by two runners at once: from the get
\* that returns it, no other runner holds the same instance and no runner can
\* obtain it again; and the instance changes only in a step of its holder.
C15_ExclusiveOwnership ==
    [][\A r \in Runners :
          IsJob(current_job[r]) =>
              /\ \A q \in Runners \ {r} :
                    /\ current_job[q].id # current_job[r].id
                    /\ current_job'[q].id # current_job[r].id
              /\ current_job[r].id \notin Obtainable
              /\ (current_job'[r] # current_job[r] /\ IsJob(current_job'[r])) =>
                    /\ pc[r] = "process"
                    /\ current_job'[r].id = current_job[r].id]_vars

\* both runners are processing at once, each its own instance, both for the
\* same dedup key
C15_Witness ==
    /\ pc[1] = "process"
    /\ pc[2] = "process"
    /\ CurrentKey(1) = CurrentKey(2)
    /\ current_job[1].id # current_job[2].id

\* no runner holds a job and none is being put
NoJobHeld ==
    \A r \in Runners : current_job[r] = NoJob /\ item[r] = NoJob

\* completed holds exactly the reachable URLs: every reachable key, and no
\* URL string that is not reachable
CompletedIsReachable ==
    /\ CompletedKeys = { DedupKey(u) : u \in Reachable }
    /\ DOMAIN storage \subseteq Reachable

\* C16: the crawl of a site in which every fetch returns 200 ends in a state
\* in which pending is empty, no job is in flight (no runner holds a job and
\* reserved is empty) and completed holds exactly the URLs reachable from the
\* seed.
C16_CrawlEndsWithReachable ==
    <>[](/\ queue = << >>
         /\ NoJobHeld
         /\ reserved = << >>
         /\ CompletedIsReachable)

\* ------------------------------------------------------ DownloadProcessor

\* number of times run is called on one processor
MaxRuns == 2

\* URL schemes of a job
Schemes == {"http", "https"}

\* the values of DownloadJob.https_mode: 0 default, 1 HTTPS only, 2 HTTP only,
\* 3 HTTPS first with fallback to HTTP
HttpsModes == 0..3

\* the remote URLs of the jobs a processor is run on: one resource of one
\* host, under either scheme
RemoteUrls == [scheme : Schemes, netloc : {"h"}, path : {"/p"}]

\* what response.history tells: no redirect, redirects within the job's host,
\* redirects ending at another host
Histories == {"none", "same_host", "other_host"}

\* what a handler's analyze returns: text, bytes, nothing, or something else
Contents == {"str", "bytes", "None", "other"}

\* DownloadJob.__init__: a fresh job with its defaults; https_mode is a keyword
\* argument
NewJob(remote, mode) ==
    [remote_url |-> remote, https_mode |-> mode,
     response_code |-> 0, references |-> {},
     local_path |-> "None", final_content |-> "None",
     allow_overwrites |-> TRUE, exception |-> FALSE,
     started |-> FALSE, delayed |-> FALSE, analyzed |-> FALSE,
     written |-> FALSE, overwritten |-> FALSE, finished |-> FALSE]

\* DownloadJob.copy: a new job for another remote URL; only local_base, logger
\* and handlers are passed on
copy(job, remote) == NewJob(remote, 0)

\* remote_url._replace(scheme="http")
ReplaceScheme(url, scheme) == [url EXCEPT !.scheme = scheme]

\* (mutant) the fallback is taken whatever the job's scheme
FallsBackAnyScheme(job) == job.https_mode = 3

\* the test of the except block for SSLError: is a fallback job derived
FallsBack(job) == job.https_mode = 3 /\ job.remote_url.scheme = "https"

\* what can be at a job's local_path: no file, a file from before, or what
\* save wrote
Files == {"absent", "old"} \cup Contents

\* (mutant) an existing file is overwritten whatever allow_overwrites says
KeepsExistingNever(job, file) == FALSE

\* save's test for an existing file that must not be overwritten
KeepsExisting(job, file) == file # "absent" /\ ~job.allow_overwrites

\* (mutant) whatever final_content is, it is written
WritableAny(job) == TRUE

\* save's choice of the file mode: final_content is str or bytes
Writable(job) == job.final_content \in {"str", "bytes"}

\* DownloadProcessor.save: the job afterwards, the value returned and what is
\* at local_path afterwards; file is what was there before.  A final_content
\* that is neither str nor bytes raises TypeError.
save(job, file) ==
    IF job.local_path = "None" \/ job.final_content = "None"
    THEN [job |-> job, result |-> "False", file |-> file]
    ELSE IF KeepsExisting(job, file)
    THEN [job |-> [job EXCEPT !.written = FALSE, !.finished = TRUE],
          result |-> "True", file |-> file]
    ELSE IF ~Writable(job)
    THEN [job |-> job, result |-> "raise", file |-> file]
    ELSE [job |-> [job EXCEPT !.written = TRUE,
                              !.overwritten = (file # "absent")],
          result |-> "True", file |-> job.final_content]

\* every variable of the ledger and the runners
crawl == << options, main, site, full, crash_on_error, queue, reserved,
            storage, lock, state, exception, pc, current_job, descendants,
            references, item, nextId, handed, completeCalls, observedGap >>

\* DownloadProcessor(job, options) for a fresh job; no crawl is going on
ProcessorInit ==
    /\ worker \in { [pc |-> "run", job |-> NewJob(u, m), descendants |-> << >>,
                     response |-> [status_code |-> 0, history |-> "none"],
                     content |-> "None", returned |-> "none", runs |-> 1,
                     file |-> f] :
                    u \in RemoteUrls, m \in HttpsModes,
                    f \in {"absent", "old"} }
    /\ options = {}
    /\ main = NotCalled
    /\ site = AnySite
    /\ full = FALSE
    /\ crash_on_error = FALSE
    /\ queue = << >>
    /\ nextId = 1
    /\ reserved = << >>
    /\ storage = << >>
    /\ lock = 0
    /\ state = [r \in Runners |-> "CREATED"]
    /\ exception = [r \in Runners |-> FALSE]
    /\ pc = [r \in Runners |-> "created"]
    /\ current_job = [r \in Runners |-> NoJob]
    /\ descendants = [r \in Runners |-> << >>]
    /\ references = [r \in Runners |-> {}]
    /\ item = [r \in Runners |-> NoJob]
    /\ handed = {}
    /\ completeCalls = [i \in JobIds |-> 0]
    /\ observedGap = FALSE

\* run's first statements: the job is started
RunStart ==
    /\ worker.pc = "run"
    /\ worker' = [worker EXCEPT !.job.started = TRUE, !.pc = "get"]
    /\ UNCHANGED crawl

\* requests.get raises SSLError: the exception is kept, a fallback job is
\* derived if the test says so, run returns False
GetSSLError ==
    /\ worker.pc = "get"
    /\ worker' = [worker EXCEPT
                     !.job.exception = TRUE,
                     !.descendants =
                         IF FallsBack(worker.job)
                         THEN Append(@, copy(worker.job,
                                  ReplaceScheme(worker.job.remote_url, "http")))
                         ELSE @,
                     !.returned = "False",
                     !.pc = "done"]
    /\ UNCHANGED crawl

\* requests.get raises another exception, which leaves run
GetRaises ==
    /\ worker.pc = "get"
    /\ worker' = [worker EXCEPT !.returned = "raise", !.pc = "done"]
    /\ UNCHANGED crawl

\* requests.get returns a response, after following the redirects if any
GetResponse ==
    /\ worker.pc = "get"
    /\ \E c \in Codes \ {0}, h \in Histories :
          worker' = [worker EXCEPT
                        !.response = [status_code |-> c, history |-> h],
                        !.pc = "code"]
    /\ UNCHANGED crawl

\* the status code is recorded; any code other than 200 ends run
StatusCode ==
    /\ worker.pc = "code"
    /\ worker' =
          IF worker.response.status_code # 200
          THEN [worker EXCEPT
                   !.job.response_code = worker.response.status_code,
                   !.job.delayed = TRUE,
                   !.returned = "False",
                   !.pc = "done"]
          ELSE [worker EXCEPT
                   !.job.response_code = worker.response.status_code,
                   !.pc = "analyze"]
    /\ UNCHANGED crawl

\* the handler's analyze returns some content and has added references to the
\* job (with no handler for the content type: the response's bytes, no reference)
Analyze ==
    /\ worker.pc = "analyze"
    /\ \E c \in Contents, R \in SUBSET Urls :
          worker' = [worker EXCEPT
                        !.job.references = @ \cup R,
                        !.content = c,
                        !.pc = "path"]
    /\ UNCHANGED crawl

\* the handler's analyze raises, which leaves run
AnalyzeRaises ==
    /\ worker.pc = "analyze"
    /\ worker' = [worker EXCEPT !.returned = "raise", !.pc = "done"]
    /\ UNCHANGED crawl

\* the local path is set, save is called (its result only logged), the job is
\* finished and run returns True
PathAndSave ==
    /\ worker.pc = "path"
    /\ LET saved == save([worker.job EXCEPT !.local_path = "set"],
                         worker.file) IN
       worker' =
           IF saved.result = "raise"
           THEN [worker EXCEPT !.job = saved.job, !.file = saved.file,
                               !.returned = "raise", !.pc = "done"]
           ELSE [worker EXCEPT !.job = [saved.job EXCEPT !.finished = TRUE],
                               !.file = saved.file,
                               !.returned = "True", !.pc = "done"]
    /\ UNCHANGED crawl

ProcessorNext ==
    \/ RunStart
    \/ GetSSLError
    \/ GetRaises
    \/ GetResponse
    \/ StatusCode
    \/ Analyze
    \/ AnalyzeRaises
    \/ PathAndSave

\* one DownloadProcessor.run on a fresh job
ProcessorSpec == ProcessorInit /\ [][ProcessorNext]_vars

\* run has returned after requests.get raised SSLError
TlsFailed == worker.pc = "done" /\ worker.job.exception

\* C17: when the fetch raises a TLS error, run returns False; it has derived
\* exactly one descendant, a fresh job for the same URL with the scheme http,
\* if the job's https_mode is 3 (HTTPS first, fallback to HTTP) and its scheme
\* is https, and no descendant under any other mode or scheme.
C17_TlsFallbackDescendant ==
    TlsFailed =>
        /\ worker.returned = "False"
        /\ IF worker.job.https_mode = 3 /\ worker.job.remote_url.scheme = "https"
           THEN /\ Len(worker.descendants) = 1
                /\ worker.descendants[1].remote_url =
                       [scheme |-> "http",
                        netloc |-> worker.job.remote_url.netloc,
                        path |-> worker.job.remote_url.path]
                /\ ~worker.descendants[1].started
           ELSE worker.descendants = << >>

\* a TLS failure of an https job under mode 3 has left one descendant
C17_Witness == TlsFailed /\ Len(worker.descendants) = 1

\* C18: when the fetch was redirected to another host, run persists nothing
\* for the job, marks it delayed, returns False and has derived exactly one
\* descendant.
C18_CrossOriginRedirect ==
    (worker.pc = "done" /\ worker.response.history = "other_host"
         /\ worker.returned # "raise") =>
        /\ worker.job.local_path = "None"
        /\ ~worker.job.written
        /\ worker.job.delayed
        /\ worker.returned = "False"
        /\ Len(worker.descendants) = 1

\* run has returned after a response with a status other than 200
Non200 == worker.pc = "done" /\ worker.response.status_code \notin {0, 200}

\* what C19 says of DownloadProcessor.run: the status code is recorded, run
\* returns False, no descendant, no reference, nothing persisted
Non200LeavesNothing ==
    Non200 =>
        /\ worker.job.response_code = worker.response.status_code
        /\ worker.returned = "False"
        /\ worker.descendants = << >>
        /\ worker.job.references = {}
        /\ worker.job.local_path = "None"
        /\ ~worker.job.written

\* C20: whenever run has returned False, the job is delayed and not finished.
C20_FalseMeansDelayed ==
    (worker.pc = "done" /\ worker.returned = "False") =>
        worker.job.delayed /\ ~worker.job.finished

\* the status code the dict st of completed jobs holds for the URL string u
CodeIn(st, u) == IF full THEN st[u].response_code ELSE st[u]

\* the status code completed holds for the URL string u
StoredCode(u) == CodeIn(storage, u)

\* a job for the dedup key k was completed with a status other than 200
Failed(k) ==
    \E u \in DOMAIN storage :
        DedupKey(u) = k /\ StoredCode(u) \notin {0, 200}

\* runner r's step is a worker.run() that met a status other than 200
Non200Step(r) ==
    /\ pc[r] = "process"
    /\ pc'[r] # "process"
    /\ current_job'[r].response_code \notin {0, 200}

\* C19: after a response with a status other than 200 the runner has nothing
\* to put (no descendant, no reference) and completes the job next, with the
\* status code recorded; and no job for a URL that was completed with such a
\* status is appended to pending again.
C19_Non200IsTerminal ==
    [][\A r \in Runners :
          /\ Non200Step(r) =>
                /\ descendants'[r] = << >>
                /\ references'[r] = {}
                /\ pc'[r] = "finally"
          /\ (CompleteStep(r) /\ current_job[r].response_code \notin {0, 200}) =>
                CodeIn(storage', current_job[r].remote_path) =
                    current_job[r].response_code
          /\ AppendStep(r) => ~Failed(DedupKey(item[r].remote_path))]_vars

\* run is called again on the same processor, whose job is started by now
Rerun ==
    /\ worker.pc = "done"
    /\ worker.runs < MaxRuns
    /\ worker' = [worker EXCEPT !.pc = "run", !.returned = "none",
                                !.runs = @ + 1]
    /\ UNCHANGED crawl

RerunNext ==
    \/ ProcessorNext
    \/ Rerun

\* DownloadProcessor.run called up to MaxRuns times on one job
RerunSpec == ProcessorInit /\ [][RerunNext]_vars

\* C21: run on a job whose started flag is already true is a no-op: its first
\* step ends it, without going on to the HTTP request and with the job (its
\* response, its flags) and the descendants as they were.
C21_StartedJobIsNoOp ==
    [][(worker.pc = "run" /\ worker.job.started) =>
           /\ worker'.pc = "done"
           /\ worker'.job = worker.job
           /\ worker'.descendants = worker.descendants]_vars

\* C22: when run has returned True for a 200 response, with content the
\* handler step chose and overwrites allowed, the job's final_content is that
\* content, it has been written to local_path, and the job is written and
\* finished.
C22_SuccessPersistsContent ==
    (/\ worker.pc = "done"
     /\ worker.returned = "True"
     /\ worker.response.status_code = 200
     /\ worker.content \in {"str", "bytes"}
     /\ worker.job.allow_overwrites) =>
        /\ worker.job.final_content = worker.content
        /\ worker.file = worker.content
        /\ worker.job.written
        /\ worker.job.finished

\* ---------------------------------------------------- DownloadProcessor.save

\* a job in any state of its flags, before save is called on it
SaveJobs ==
    { [NewJob(u, 0) EXCEPT !.local_path = lp, !.final_content = fc,
                           !.allow_overwrites = ao, !.written = w,
                           !.overwritten = o, !.finished = f] :
        u \in RemoteUrls, lp \in {"None", "set"}, fc \in Contents,
        ao \in BOOLEAN, w \in BOOLEAN, o \in BOOLEAN, f \in BOOLEAN }

\* no crawl is going on
Idle ==
    /\ options = {}
    /\ main = NotCalled
    /\ site = AnySite
    /\ full = FALSE
    /\ crash_on_error = FALSE
    /\ queue = << >>
    /\ nextId = 1
    /\ reserved = << >>
    /\ storage = << >>
    /\ lock = 0
    /\ state = [r \in Runners |-> "CREATED"]
    /\ exception = [r \in Runners |-> FALSE]
    /\ pc = [r \in Runners |-> "created"]
    /\ current_job = [r \in Runners |-> NoJob]
    /\ descendants = [r \in Runners |-> << >>]
    /\ references = [r \in Runners |-> {}]
    /\ item = [r \in Runners |-> NoJob]
    /\ handed = {}
    /\ completeCalls = [i \in JobIds |-> 0]
    /\ observedGap = FALSE

\* a processor whose save is about to be called, with or without a file at
\* the job's local_path
SaveInit ==
    /\ worker \in { [pc |-> "save", job |-> j, file |-> f, returned |-> "none"] :
                    j \in SaveJobs, f \in {"absent", "old"} }
    /\ Idle

\* self.save()
Save ==
    /\ worker.pc = "save"
    /\ LET saved == save(worker.job, worker.file) IN
       worker' = [pc |-> "saved", job |-> saved.job, file |-> saved.file,
                  returned |-> saved.result]
    /\ UNCHANGED crawl

SaveSpec == SaveInit /\ [][Save]_vars

\* save is about to be called with a file at the job's local_path and
\* overwrites not allowed
OverwriteDenied ==
    /\ worker.pc = "save"
    /\ worker.job.local_path = "set"
    /\ worker.file # "absent"
    /\ ~worker.job.allow_overwrites

\* what C23 says save does
SuccessfulNoOp ==
    /\ worker'.returned = "True"
    /\ ~worker'.job.written
    /\ worker'.job.finished
    /\ worker'.file = worker.file
    /\ worker'.job.overwritten = worker.job.overwritten

\* C23 as stated: save on a job whose target file exists while allow_overwrites
\* is false returns True, sets written = False and finished = True and leaves
\* the file and the overwritten flag as they were.
C23_OverwriteDeniedIsNoOp ==
    [][OverwriteDenied => SuccessfulNoOp]_vars

\* C23 as amended: the same, for a job whose final_content is set.
C23_OverwriteDeniedWithContent ==
    [][(OverwriteDenied /\ worker.job.final_content # "None")
           => SuccessfulNoOp]_vars

\* save has kept an existing file of a job that was marked written and
\* overwritten before
C23_Witness ==
    /\ worker.pc = "saved"
    /\ worker.returned = "True"
    /\ worker.file = "old"
    /\ worker.job.final_content = "str"
    /\ ~worker.job.allow_overwrites
    /\ ~worker.job.written
    /\ worker.job.overwritten
    /\ worker.job.finished

\* save is about to be called on a job with a local_path and a final_content
\* that is neither text nor bytes
BadContent ==
    /\ worker.pc = "save"
    /\ worker.job.local_path = "set"
    /\ worker.job.final_content = "other"

\* C24 as stated: save on a job whose local_path is set and whose final_content
\* is neither text nor bytes raises and writes nothing, whether or not the file
\* exists and whatever allow_overwrites is.
C24_BadContentAlwaysRaises ==
    [][BadContent =>
           /\ worker'.returned = "raise"
           /\ worker'.file = worker.file]_vars

\* C24 as amended: it raises and writes nothing unless the file exists and
\* allow_overwrites is false; then it returns True and writes nothing.
C24_BadContentRaisesUnlessKept ==
    [][BadContent =>
           /\ worker'.file = worker.file
           /\ worker'.returned =
                  IF worker.file # "absent" /\ ~worker.job.allow_overwrites
                  THEN "True" ELSE "raise"]_vars

\* save has raised for a job whose file exists and may be overwritten
C24_Witness ==
    /\ worker.pc = "saved"
    /\ worker.returned = "raise"
    /\ worker.job.final_content = "other"
    /\ worker.job.allow_overwrites
    /\ worker.file = "old"

\* C25: every job made by DownloadJob.copy carries the configuration of its
\* source job: the descendants of a processor have the HTTPS mode and the
\* allow_overwrites flag of the processor's job.
C25_CopyCarriesConfiguration ==
    \A i \in DOMAIN worker.descendants :
        /\ worker.descendants[i].https_mode = worker.job.https_mode
        /\ worker.descendants[i].allow_overwrites = worker.job.allow_overwrites

\* ------------------------------------------------- JobManager's counters

\* the status codes that count as success
DEFAULT_ACCEPTED_RESPONSE_CODES == {200}

\* value in self._successful, for a value of _storage: a status code is
\* compared with the accepted codes; a DownloadJob (full mode) equals no
\* status code, its __eq__ answers NotImplemented for anything but a job
InSuccessful(value) ==
    IF full THEN FALSE ELSE value \in DEFAULT_ACCEPTED_RESPONSE_CODES

\* JobManager.completed
completed == Cardinality(DOMAIN storage)

\* JobManager.succeeded
succeeded == Cardinality({ k \in DOMAIN storage : InSuccessful(storage[k]) })

\* C26: succeeded is the number of completed entries whose job's status code
\* is an accepted one, in both storage modes, and never more than completed.
C26_SucceededCountsAccepted ==
    /\ succeeded =
           Cardinality({ k \in DOMAIN storage :
                           StoredCode(k) \in DEFAULT_ACCEPTED_RESPONSE_CODES })
    /\ succeeded <= completed

\* --------------------------------------------- Downloader.stop_all_runners

\* runner.state in (...) and runner.state == ... of the Downloader, which
\* writes the states as ints: a member of RunnerState (a plain Enum) is equal
\* to no int; the only int a state can be is the 2 that stop_runner stores,
\* which Runner.run's loop condition takes like ENDING
StateIn(s, ints) == s = "ENDING" /\ 2 \in ints

\* a crawl whose runner threads are started, and a thread that is going to
\* call stop_all_runners
StopAllInit ==
    /\ options = {}
    /\ main = [pc |-> "running", key |-> 0]
    /\ worker = NoWorker
    /\ site = AnySite
    /\ full \in BOOLEAN
    /\ crash_on_error \in BOOLEAN
    /\ queue = << DownloadJob(1, Seed) >>
    /\ nextId = 2
    /\ reserved = << >>
    /\ storage = << >>
    /\ lock = 0
    /\ state = [r \in Runners |-> "CREATED"]
    /\ exception = [r \in Runners |-> FALSE]
    /\ pc = [r \in Runners |-> "created"]
    /\ current_job = [r \in Runners |-> NoJob]
    /\ descendants = [r \in Runners |-> << >>]
    /\ references = [r \in Runners |-> {}]
    /\ item = [r \in Runners |-> NoJob]
    /\ handed = {}
    /\ completeCalls = [i \in JobIds |-> 0]
    /\ observedGap = FALSE

\* the position after the loop over self._runners has dealt with runner key
AfterKey(loop, key, then) ==
    IF key + 1 \in Runners THEN [pc |-> loop, key |-> key + 1]
                           ELSE then

\* the call of stop_all_runners, at any moment of the crawl
StopAllCall ==
    /\ main.pc = "running"
    /\ main' = [pc |-> "for", key |-> 1]
    /\ UNCHANGED << options, worker, site, full, crash_on_error, exception,
                    queue, reserved, storage, lock, state, pc, current_job,
                    descendants, references, item, nextId, handed,
                    completeCalls, observedGap >>

\* first loop, one runner: if runner.state in (0, 1, 5): runner.state = 2
\* (the two elif branches only log)
StopAllSetState ==
    /\ main.pc = "for"
    /\ state' = [state EXCEPT ![main.key] =
                     IF StateIn(@, {0, 1, 5}) THEN "ENDING" ELSE @]
    /\ main' = AfterKey("for", main.key, [pc |-> "join", key |-> 1])
    /\ UNCHANGED << options, worker, site, full, crash_on_error, exception,
                    queue, reserved, storage, lock, pc, current_job,
                    descendants, references, item, nextId, handed,
                    completeCalls, observedGap >>

\* second loop, one runner: thread.join() returns once the thread has ended
StopAllJoin ==
    /\ main.pc = "join"
    /\ pc[main.key] \in {"done", "dead"}
    /\ main' = AfterKey("join", main.key, [pc |-> "returned", key |-> 0])
    /\ UNCHANGED << options, worker, site, full, crash_on_error, exception,
                    queue, reserved, storage, lock, state, pc, current_job,
                    descendants, references, item, nextId, handed,
                    completeCalls, observedGap >>

StopAllStep ==
    \/ StopAllCall
    \/ StopAllSetState
    \/ StopAllJoin

StopAllNext ==
    \/ \E r \in Runners : RunnerStep(r)
    \/ \E r \in Runners \ {1} : Stop(r)
    \/ StopAllStep

\* a crawl in which stop_all_runners is called, and stop_runner for no runner
\* but the second; every thread that can take a step eventually takes one
StopAllSpec ==
    /\ StopAllInit
    /\ [][StopAllNext]_vars
    /\ \A r \in Runners : WF_vars(RunnerStep(r))
    /\ WF_vars(StopAllStep)

\* the states in which a runner is alive and not asked to stop
Running == {"CREATED", "WORKING", "WAITING"}

\* C27: stop_all_runners, called while the runners are in Created, Working or
\* Waiting, sets the state of each of them to Ending, and the call eventually
\* returns, every runner then being in Exited or Crashed
C27_StopAllRunnersEndsAll ==
    /\ [][(main.pc = "for" /\ main' # main /\ state[main.key] \in Running)
              => state'[main.key] = "ENDING"]_vars
    /\ (main.pc = "for" /\ \A r \in Runners : state[r] \in Running)
           ~> (/\ main.pc = "returned"
               /\ \A r \in Runners : state[r] \in {"EXITED", "CRASHED"})

\* ------------------------------------------- helper.find_absolute_reference

\* A string is the sequence of its pieces: the delimiters of a URL and the
\* words between them. "" is << >>.
Delims == {":", "//", "/", "?", "#"}

\* str.lower
lower(s) ==
    [i \in 1..Len(s) |-> CASE s[i] = "HTTPS" -> "https"
                           [] s[i] = "H" -> "h"
                           [] s[i] = "A" -> "a"
                           [] OTHER -> s[i]]

\* str.find for any of the pieces in T: the first position, 0 if there is none
find(s, T) ==
    IF \E i \in 1..Len(s) : s[i] \in T
    THEN CHOOSE i \in 1..Len(s) : s[i] \in T /\ \A k \in 1..(i - 1) : s[k] \notin T
    ELSE 0

\* the last position of a piece in T, 0 if there is none
rfind(s, T) ==
    IF \E i \in 1..Len(s) : s[i] \in T
    THEN CHOOSE i \in 1..Len(s) :
             s[i] \in T /\ \A k \in (i + 1)..Len(s) : s[k] \notin T
    ELSE 0

\* s[i:]
From(s, i) == SubSeq(s, i, Len(s))

\* urllib.parse.urlparse in full: the scheme before the first ':' (lowered),
\* the netloc after '//' up to the next '/', '?' or '#', the fragment after
\* the first '#', the query after the first '?', and the path; the strings
\* have no ';', so params is always empty
urlsplit(s) ==
    LET i == find(s, {":"})
        hasScheme == i > 1 /\ \A k \in 1..(i - 1) : s[k] \notin Delims \cup {".", ".."}
        afterScheme == IF hasScheme THEN From(s, i + 1) ELSE s
        hasNetloc == Len(afterScheme) > 0 /\ afterScheme[1] = "//"
        authority == From(afterScheme, 2)
        j == find(authority, {"/", "//", "?", "#"})
        afterNetloc == IF ~hasNetloc THEN afterScheme
                       ELSE IF j = 0 THEN << >> ELSE From(authority, j)
        h == find(afterNetloc, {"#"})
        beforeFragment == IF h = 0 THEN afterNetloc ELSE SubSeq(afterNetloc, 1, h - 1)
        q == find(beforeFragment, {"?"})
    IN  [scheme |-> IF hasScheme THEN lower(SubSeq(s, 1, i - 1)) ELSE << >>,
         netloc |-> IF ~hasNetloc THEN << >>
                    ELSE IF j = 0 THEN authority ELSE SubSeq(authority, 1, j - 1),
         path |-> IF q = 0 THEN beforeFragment ELSE SubSeq(beforeFragment, 1, q - 1),
         params |-> << >>,
         query |-> IF q = 0 THEN << >> ELSE From(beforeFragment, q + 1),
         fragment |-> IF h = 0 THEN << >> ELSE From(afterNetloc, h + 1)]

\* s.startswith("/")
StartsWithSlash(s) == Len(s) > 0 /\ s[1] \in {"/", "//"}

\* urllib.parse.urlunparse
urlunparse(u) ==
    LET withNetloc ==
            IF u.netloc # << >>
               \/ (u.scheme \in {<<"http">>, <<"https">>}
                   /\ ~(Len(u.path) > 0 /\ u.path[1] = "//"))
            THEN <<"//">> \o u.netloc
                     \o (IF u.path # << >> /\ ~StartsWithSlash(u.path)
                         THEN <<"/">> ELSE << >>)
                     \o u.path
            ELSE u.path
        withScheme == IF u.scheme # << >> THEN u.scheme \o <<":">> \o withNetloc
                                           ELSE withNetloc
        withQuery == IF u.query # << >> THEN withScheme \o <<"?">> \o u.query
                                         ELSE withScheme
    IN  IF u.fragment # << >> THEN withQuery \o <<"#">> \o u.fragment
                               ELSE withQuery

\* the loop of remove_dot_segments over path.split("/"): the segments kept
RECURSIVE Segments(_, _)
Segments(path, out) ==
    IF path = << >> THEN out
    ELSE IF Head(path) \in {"/", "//", "."} THEN Segments(Tail(path), out)
    ELSE IF Head(path) = ".."
         THEN Segments(Tail(path),
                       IF Len(out) > 0 THEN SubSeq(out, 1, Len(out) - 1) ELSE out)
    ELSE Segments(Tail(path), Append(out, Head(path)))

\* "/".join(out)
RECURSIVE Join(_)
Join(out) ==
    IF Len(out) <= 1 THEN out
    ELSE <<Head(out), "/">> \o Join(Tail(out))

\* (mutant) the path is returned as it is
RemoveNothing(path) == path

\* helper.remove_dot_segments
remove_dot_segments(path) == <<"/">> \o Join(Segments(path, << >>))

\* merge_paths inside find_absolute_reference
merge_paths(a, b) ==
    LET b1 == IF StartsWithSlash(b) THEN b ELSE <<"/">> \o b
    IN  IF a.netloc # << >> /\ a.path = << >> THEN b1
        ELSE SubSeq(a.path, 1, rfind(a.path, {"/"}) - 1) \o b1

\* an HTTPS policy value: one of the ints the Downloader works with, or a
\* member of constants.HTTPSMode (DEFAULT = 1, HTTP_ONLY = 2, HTTPS_ONLY = 3,
\* HTTPS_FIRST = 4), which the command line supplies; the default of
\* find_absolute_reference, DEFAULT_HTTPS_MODE, is HTTPSMode.DEFAULT
HttpsPolicies ==
    [kind : {"int"}, value : 0..3] \cup [kind : {"HTTPSMode"}, value : 1..4]

\* https_mode == n for an int n: a member of HTTPSMode is equal to no int
ModeEq(https_mode, n) == https_mode.kind = "int" /\ https_mode.value = n

\* what find_absolute_reference returns: None, or a URL string
None == [rejected |-> TRUE, url |-> << >>]

Returned(url) == [rejected |-> FALSE, url |-> url]

\* no base was given (base=None)
NoBase == [none |-> TRUE]

\* (mutant) every network location passes for the job's own
SameNetlocAlways(netloc, domain) == TRUE

\* netloc.lower() == domain.lower()
SameNetloc(netloc, domain) == lower(netloc) = lower(domain)

\* (mutant) every reference is taken for a relative path and merged with the
\* referer's
MergesAlways(target, domain, remote_url, https_mode, base0) ==
    Returned(urlunparse(
        [scheme |-> remote_url.scheme, netloc |-> domain,
         path |-> remove_dot_segments(
                      merge_paths(remote_url, urlsplit(target).path)),
         params |-> << >>, query |-> << >>, fragment |-> << >>]))

\* helper.find_absolute_reference
find_absolute_reference(target, domain, remote_url, https_mode, base0) ==
    LET url == urlsplit(target)
        base == IF base0 = NoBase THEN remote_url ELSE base0
        scheme ==
            IF url.scheme # << >> THEN url.scheme
            ELSE IF ModeEq(https_mode, 0) THEN remote_url.scheme
            ELSE IF ModeEq(https_mode, 1) \/ ModeEq(https_mode, 3) THEN <<"https">>
            ELSE IF ModeEq(https_mode, 2) THEN <<"http">>
            ELSE << >>
        asWritten ==
            Returned(urlunparse([scheme |-> scheme, netloc |-> url.netloc,
                                 path |-> remove_dot_segments(url.path),
                                 params |-> url.params, query |-> url.query,
                                 fragment |-> << >>]))
        path ==
            IF url.path = << >> THEN base.path
            ELSE IF StartsWithSlash(url.path) THEN remove_dot_segments(url.path)
            ELSE remove_dot_segments(merge_paths(base, url.path))
        query ==
            IF url.path = << >> /\ url.query = << >> THEN base.query
                                                     ELSE url.query
    IN  IF url.scheme # << >> /\ lower(url.scheme) \notin {<<"http">>, <<"https">>}
        THEN None
        ELSE IF /\ url.scheme # << >>
                /\ url.netloc # << >>
                /\ SameNetloc(url.netloc, domain)
        THEN asWritten
        ELSE IF url.netloc # << >> /\ ~SameNetloc(url.netloc, domain)
        THEN None
        ELSE IF url.netloc # << >>
        THEN asWritten
        ELSE Returned(urlunparse([scheme |-> scheme, netloc |-> domain,
                                  path |-> remove_dot_segments(path),
                                  params |-> url.params, query |-> query,
                                  fragment |-> << >>]))

\* the reference strings a page can hold
Targets ==
    { sc \o nl \o pa \o qu \o fr :
        sc \in {<< >>, <<"http", ":">>, <<"HTTPS", ":">>, <<"mailto", ":">>},
        nl \in {<< >>, <<"//", "h">>, <<"//", "H">>, <<"//", "o">>},
        pa \in {<< >>, <<"/", "a">>, <<"a">>, <<"..", "/", "a">>,
                <<"/", ".", "/", "a", "/", "..">>},
        qu \in {<< >>, <<"?", "q">>},
        fr \in {<< >>, <<"#", "f">>} }

\* the URLs of the pages that hold them
Referers ==
    { <<"http", ":", "//", "h", "/", "d", "/", "p">>,
      <<"http", ":", "//", "h", "/", "d", "/", "p", "?", "r">>,
      <<"https", ":", "//", "H">> }

\* the bases a page can declare: none, or a URL on another host
Bases == { NoBase, urlsplit(<<"http", ":", "//", "o", "/", "b", "/", "c">>) }

\* a page's handler is about to resolve one reference
ResolveInit ==
    /\ worker \in { [pc |-> "call", target |-> t, remote_url |-> urlsplit(r),
                     https_mode |-> m, base |-> b, result |-> None,
                     again |-> None] :
                    t \in Targets, r \in Referers, m \in HttpsPolicies,
                    b \in Bases }
    /\ Idle

\* find_absolute_reference(target, job.netloc, job.remote_url, https_mode, base)
Resolve ==
    /\ worker.pc = "call"
    /\ worker' = [worker EXCEPT
           !.pc = "returned",
           !.result = find_absolute_reference(worker.target,
                          worker.remote_url.netloc, worker.remote_url,
                          worker.https_mode, worker.base)]
    /\ UNCHANGED crawl

ResolveSpec == ResolveInit /\ [][Resolve]_vars

\* the reference was resolved and not rejected
Resolved == worker.pc = "returned" /\ ~worker.result.rejected

\* C28: whatever the HTTPS policy and the base, a reference whose host is not
\* empty and differs from the job's host (letter case aside) is rejected, and
\* the host of every result that is not a rejection is the job's host (letter
\* case aside)
C28_SameOriginOnly ==
    /\ (/\ worker.pc = "returned"
        /\ urlsplit(worker.target).netloc # << >>
        /\ lower(urlsplit(worker.target).netloc) # lower(worker.remote_url.netloc))
           => worker.result.rejected
    /\ Resolved => lower(urlsplit(worker.result.url).netloc)
                       = lower(worker.remote_url.netloc)

\* a reference to another host was rejected, a base on that host being
\* given and the policy being HTTPS first
C28_Witness ==
    /\ worker.pc = "returned"
    /\ urlsplit(worker.target).netloc = <<"o">>
    /\ worker.base # NoBase
    /\ worker.https_mode = [kind |-> "int", value |-> 3]
    /\ worker.result.rejected

\* C29: whatever the reference, the referer, the base and the HTTPS policy
\* (the default included), a result that is not a rejection is a URL with the
\* scheme http or https, a host and no fragment
C29_ResultIsAbsoluteUrl ==
    Resolved =>
        /\ urlsplit(worker.result.url).scheme \in {<<"http">>, <<"https">>}
        /\ urlsplit(worker.result.url).netloc # << >>
        /\ urlsplit(worker.result.url).fragment = << >>

\* the policy a value stands for: the ints as the Downloader is constructed
\* with them (0 unconstrained, 1 HTTPS only, 2 HTTP only, 3 HTTPS first), the
\* members of HTTPSMode by their names
Policy(https_mode) ==
    IF https_mode.kind = "int"
    THEN CASE https_mode.value = 0 -> "Unconstrained"
           [] https_mode.value = 1 -> "ForceHTTPS"
           [] https_mode.value = 2 -> "ForceHTTP"
           [] https_mode.value = 3 -> "HTTPSFirstFallbackHTTP"
    ELSE CASE https_mode.value = 1 -> "Unconstrained"
           [] https_mode.value = 2 -> "ForceHTTP"
           [] https_mode.value = 3 -> "ForceHTTPS"
           [] https_mode.value = 4 -> "HTTPSFirstFallbackHTTP"

\* C30: the scheme of the result for a reference without a scheme is the
\* referer's under Unconstrained, https under ForceHTTPS and under
\* HTTPSFirstFallbackHTTP, http under ForceHTTP, for the ints and for the
\* members of HTTPSMode
C30_SchemeFollowsPolicy ==
    (Resolved /\ urlsplit(worker.target).scheme = << >>) =>
        urlsplit(worker.result.url).scheme =
            CASE Policy(worker.https_mode) = "Unconstrained" ->
                     worker.remote_url.scheme
              [] Policy(worker.https_mode) = "ForceHTTP" -> <<"http">>
              [] OTHER -> <<"https">>

\* ------------------------------------------------ helper.remove_dot_segments

\* longest path, in pieces ('/' and segments)
MaxPathLen == 8

\* the segments a path is written with
SegmentNames == {".", "..", "a", "b", "c"}

\* the paths of exactly n pieces: two segments are always separated by a '/'
RECURSIVE PathsOfLen(_)
PathsOfLen(n) ==
    IF n = 0 THEN { << >> }
    ELSE { Append(p, t) :
             p \in PathsOfLen(n - 1),
             t \in {"/"} \cup SegmentNames } \
         { q \in [1..n -> {"/"} \cup SegmentNames] :
             n > 1 /\ q[n] # "/" /\ q[n - 1] # "/" }

\* remove_dot_segments is about to be called on a path
PathInit ==
    /\ worker \in { [pc |-> "call", path |-> p, result |-> << >>] :
                     p \in UNION { PathsOfLen(n) : n \in 0..MaxPathLen } }
    /\ Idle

\* remove_dot_segments(path)
RemoveDots ==
    /\ worker.pc = "call"
    /\ worker' = [worker EXCEPT !.pc = "returned",
                                !.result = remove_dot_segments(worker.path)]
    /\ UNCHANGED crawl

PathSpec == PathInit /\ [][RemoveDots]_vars

\* C31: the result of remove_dot_segments starts with '/' and has no '.' and
\* no '..' segment; a '..' at the root is dropped; /a/b/../c gives /a/c,
\* /a/./b gives /a/b and /../a gives /a
C31_DotSegmentsRemoved ==
    worker.pc = "returned" =>
        /\ Len(worker.result) > 0 /\ worker.result[1] = "/"
        /\ \A i \in 1..Len(worker.result) : worker.result[i] \notin {".", ".."}
        /\ (Len(worker.path) >= 2 /\ SubSeq(worker.path, 1, 2) = <<"/", "..">>)
               => worker.result = remove_dot_segments(From(worker.path, 3))
        /\ worker.path = <<"/", "a", "/", "b", "/", "..", "/", "c">>
               => worker.result = <<"/", "a", "/", "c">>
        /\ worker.path = <<"/", "a", "/", ".", "/", "b">>
               => worker.result = <<"/", "a", "/", "b">>
        /\ worker.path = <<"/", "..", "/", "a">>
               => worker.result = <<"/", "a">>

\* /a/b/../c was resolved
C31_Witness ==
    /\ worker.pc = "returned"
    /\ worker.path = <<"/", "a", "/", "b", "/", "..", "/", "c">>
    /\ worker.result = <<"/", "a", "/", "c">>

\* the output buffer of RFC 3986, 5.2.4 without its last segment and the '/'
\* before it
WithoutLastSegment(out) == SubSeq(out, 1, rfind(out, {"/"}) - 1)

\* whether the input buffer starts with the pieces of prefix
StartsWith(in, prefix) ==
    Len(in) >= Len(prefix) /\ SubSeq(in, 1, Len(prefix)) = prefix

\* RFC 3986, 5.2.4, the algorithm the docstring of remove_dot_segments names:
\* steps 2A to 2E on the input buffer, until it is empty
RECURSIVE Rfc3986(_, _)
Rfc3986(in, out) ==
    IF in = << >> THEN out
    ELSE IF StartsWith(in, <<"..", "/">>) \/ StartsWith(in, <<".", "/">>)
         THEN Rfc3986(From(in, 3), out)
    ELSE IF StartsWith(in, <<"/", ".", "/">>)
         THEN Rfc3986(From(in, 3), out)
    ELSE IF in = <<"/", ".">>
         THEN Rfc3986(<<"/">>, out)
    ELSE IF StartsWith(in, <<"/", "..", "/">>)
         THEN Rfc3986(From(in, 3), WithoutLastSegment(out))
    ELSE IF in = <<"/", "..">>
         THEN Rfc3986(<<"/">>, WithoutLastSegment(out))
    ELSE IF in = <<".">> \/ in = <<"..">>
         THEN Rfc3986(<< >>, out)
    ELSE IF in[1] = "/" /\ Len(in) > 1 /\ in[2] # "/"
         THEN Rfc3986(From(in, 3), out \o SubSeq(in, 1, 2))
    ELSE Rfc3986(Tail(in), Append(out, in[1]))

\* C39: for a path that starts with '/', remove_dot_segments returns what the
\* algorithm of RFC 3986, 5.2.4 returns, paths that end in '/', '/.' or '/..'
\* and paths with empty segments included
C39_SameAsRfc3986 ==
    (worker.pc = "returned" /\ StartsWithSlash(worker.path)) =>
        worker.result = Rfc3986(worker.path, << >>)

\* --------------------------------------------- resolving a result once more

\* the URL that was just returned is resolved as a reference of the page it
\* names: it is the referer (so its netloc is the job's) and the base
ResolveAgain ==
    /\ Resolved
    /\ worker' = [worker EXCEPT
           !.pc = "resolved_again",
           !.again = find_absolute_reference(worker.result.url,
                         urlsplit(worker.result.url).netloc,
                         urlsplit(worker.result.url), worker.https_mode,
                         urlsplit(worker.result.url))]
    /\ UNCHANGED crawl

RoundTripSpec == ResolveInit /\ [][Resolve \/ ResolveAgain]_vars

\* C32: a URL that find_absolute_reference returned, resolved again with
\* itself as referer and as base, gives the same URL
C32_ResolutionIsIdempotent ==
    worker.pc = "resolved_again" => worker.again = worker.result

\* a relative reference with dot segments, query and fragment was merged with
\* the base's path, and the result was resolved again
C32_Witness ==
    /\ worker.pc = "resolved_again"
    /\ worker.target = <<"..", "/", "a", "?", "q", "#", "f">>
    /\ worker.base # NoBase
    /\ worker.result.url = <<"http", ":", "//", "h", "/", "a", "?", "q">>
    /\ worker.again = worker.result

\* ------------------------------------------- JobManager.get while it waits

\* JobManager.get on an empty queue, first half: the mutex is taken, then
\* queue.get blocks
GetWait(r) ==
    /\ pc[r] = "get"
    /\ lock = 0
    /\ queue = << >>
    /\ lock' = GetHolder(r)
    /\ pc' = [pc EXCEPT ![r] = "waiting"]
    /\ UNCHANGED << options, main, worker, site, full, crash_on_error,
                    exception, queue, reserved, storage, state, current_job,
                    descendants, references, item, nextId, handed,
                    completeCalls, observedGap >>

\* JobManager.get on an empty queue, second half: queue.get returns the head
\* if there is one by now, else it raises queue.Empty at the timeout and the
\* with block releases the mutex
GetWaitEnds(r) ==
    /\ pc[r] = "waiting"
    /\ lock = GetHolder(r)
    /\ IF queue # << >>
       THEN /\ current_job' = [current_job EXCEPT ![r] = Head(queue)]
            /\ queue' = QueueAfterGet
            /\ pc' = [pc EXCEPT ![r] = "reserve"]
            /\ UNCHANGED lock
       ELSE /\ lock' = 0
            /\ pc' = [pc EXCEPT ![r] = "empty_if"]
            /\ UNCHANGED << queue, current_job >>
    /\ UNCHANGED << options, main, worker, site, full, crash_on_error,
                    exception, reserved, storage, state, descendants,
                    references, item, nextId, handed, completeCalls,
                    observedGap >>

\* Runner.run, the wait of get on an empty queue being two steps
WaitingStep(r) ==
    \/ Start(r)
    \/ While(r)
    \/ GetPop(r)
    \/ GetReserve(r)
    \/ GetWait(r)
    \/ GetWaitEnds(r)
    \/ Got(r)
    \/ EmptyIf(r)
    \/ SetWaiting(r)
    \/ Process(r)
    \/ PutCheck(r)
    \/ PutAppend(r)
    \/ Except(r)
    \/ Finally(r)
    \/ Exit(r)

WaitingSpec ==
    Init /\ [][ \/ \E r \in Runners : WaitingStep(r)
                \/ \E r \in Runners \ {1} : Stop(r) ]_vars

\* C33: while a runner waits in get on the empty queue, the put of another
\* runner can go on (its check and its append are not held up), and a get
\* that waited returns the job that was put instead of timing out
C33_PutNotHeldUpByWaitingGet ==
    \A r \in Runners : \A s \in Runners \ {r} :
        (pc[r] = "waiting" /\ pc[s] \in {"put", "append"}) =>
            ENABLED (PutCheck(s) \/ PutAppend(s))

\* ------------------------------------------------- the idle state of a crawl

\* C34: whenever pending is empty and the state of every runner is Waiting, no
\* runner holds a job that was dequeued and is not yet completed, and reserved
\* is empty
C34_AllWaitingMeansNoJobInFlight ==
    (queue = << >> /\ \A r \in Runners : state[r] = "WAITING") =>
        /\ \A r \in Runners : pc[r] \notin HoldingPcs \cup {"reserve"}
        /\ reserved = << >>

\* ------------------------------------------- runners told to quit when idle

\* A runner is configured by queue_access_timeout, crash_on_error and
\* options, and by nothing else: the one place where a caller can ask for a
\* runner that quits on an empty queue is a key of options
QuitInit ==
    /\ options \in { {}, {"quit_on_empty"} }
    /\ main = NotCalled
    /\ worker = NoWorker
    /\ site = AnySite
    /\ full \in BOOLEAN
    /\ crash_on_error \in BOOLEAN
    /\ queue = << DownloadJob(1, Seed) >>
    /\ nextId = 2
    /\ reserved = << >>
    /\ storage = << >>
    /\ lock = 0
    /\ state = [r \in Runners |-> "CREATED"]
    /\ exception = [r \in Runners |-> FALSE]
    /\ pc = [r \in Runners |-> "created"]
    /\ current_job = [r \in Runners |-> NoJob]
    /\ descendants = [r \in Runners |-> << >>]
    /\ references = [r \in Runners |-> {}]
    /\ item = [r \in Runners |-> NoJob]
    /\ handed = {}
    /\ completeCalls = [i \in JobIds |-> 0]
    /\ observedGap = FALSE

\* a crawl of runners that may have been asked to quit on an empty queue, the
\* first of them never being stopped from outside; every thread that can take
\* a step eventually takes one
QuitSpec ==
    /\ QuitInit
    /\ [][NextUnstopped]_vars
    /\ \A r \in Runners : WF_vars(RunnerStep(r))

\* runner r, in Working, has met the timeout of get and is about to set its
\* state
TimedOut(r) == pc[r] = "set_waiting" /\ state[r] = "WORKING"

\* C35: on a timeout of get a runner in Working moves to Waiting and goes on
\* polling, or, if it is configured to quit on an empty queue, it moves to
\* Ending, leaves its loop and reaches Exited
C35_TimeoutWaitsOrQuits ==
    /\ [][\A r \in Runners :
              (TimedOut(r) /\ pc'[r] # pc[r]) =>
                  IF "quit_on_empty" \in options
                  THEN state'[r] = "ENDING"
                  ELSE state'[r] = "WAITING" /\ pc'[r] = "while"]_vars
    /\ \A r \in Runners :
           (TimedOut(r) /\ "quit_on_empty" \in options) ~> state[r] = "EXITED"

\* ------------------------------- DownloadProcessor.run after a 200 response
\*
\* The names requests and helper are taken to resolve where run uses them up
\* to here; processor.py imports neither (see StoreContent for helper).

\* the handler classes of handler.py that a job can carry, and their MIME_TYPE
MIME_TYPE == [HTMLContentHandler |-> {"text/html"},
              PlaintextContentHandler |-> {"text/plain"}]

\* handler_class.accepts(content_type); "raise" when content_type is None,
\* which has no method lower; mime is content_type.lower().split(";")[0]
\* .strip()
accepts(handler_class, content_type) ==
    LET mime == CASE content_type = "TEXT/HTML; charset=utf-8" -> "text/html"
                  [] OTHER -> content_type
    IN  IF content_type = "None" THEN "raise"
        ELSE IF mime \in MIME_TYPE[handler_class] THEN "True"
        ELSE "False"

\* the paths of the URLs of the jobs
UrlPaths == { << >>, <<"/">>, <<"/", "a">>, <<"/", "a", "/">>,
              <<"/", "A", "/", "b">>, <<"/", "/", "a">>,
              <<"/", "..", "/", "a">> }

\* s.endswith("/")
EndsWithSlash(s) == Len(s) > 0 /\ s[Len(s)] = "/"

\* os.path.join(a, b): an absolute b replaces a
join(a, b) ==
    IF StartsWithSlash(b) THEN b
    ELSE IF a = << >> \/ EndsWithSlash(a) THEN a \o b
    ELSE a \o <<"/">> \o b

\* run has received a response with status 200 for a started job: local_base
\* is an existing directory, the root of the mirror; headers is the value of
\* the response's Content-Type header, "None" without one; handler is the
\* job's list of handler classes; options holds the keys that run reads
StoreInit ==
    /\ worker \in
         { [pc |-> "headers",
            job |-> [NewJob([scheme |-> "http", netloc |-> "h", path |-> u], 0)
                         EXCEPT !.started = TRUE, !.response_code = 200],
            local_base |-> b, headers |-> h, handler |-> l,
            response_type |-> "None", handler_class |-> "None",
            analyzed |-> "none", content |-> "None", local_path |-> << >>,
            returned |-> "none", file |-> f] :
           u \in UrlPaths, b \in { <<"/", "m">>, <<"/", "m", "/">> },
           h \in {"None", "text/html", "TEXT/HTML; charset=utf-8",
                  "image/png"},
           l \in { << >>, <<"HTMLContentHandler">>,
                   <<"PlaintextContentHandler", "HTMLContentHandler">> },
           f \in {"absent", "old"} }
    /\ options \in SUBSET {"ascii_only", "lowered"}
    /\ main = NotCalled
    /\ site = AnySite
    /\ full = FALSE
    /\ crash_on_error = FALSE
    /\ queue = << >>
    /\ nextId = 1
    /\ reserved = << >>
    /\ storage = << >>
    /\ lock = 0
    /\ state = [r \in Runners |-> "CREATED"]
    /\ exception = [r \in Runners |-> FALSE]
    /\ pc = [r \in Runners |-> "created"]
    /\ current_job = [r \in Runners |-> NoJob]
    /\ descendants = [r \in Runners |-> << >>]
    /\ references = [r \in Runners |-> {}]
    /\ item = [r \in Runners |-> NoJob]
    /\ handed = {}
    /\ completeCalls = [i \in JobIds |-> 0]
    /\ observedGap = FALSE

\* the loop over the response's headers: response_type is the value of the
\* Content-Type header, if there is one
ResponseType ==
    /\ worker.pc = "headers"
    /\ worker' = [worker EXCEPT
                     !.response_type = IF worker.headers # "None"
                                       THEN worker.headers ELSE @,
                     !.pc = "handler"]
    /\ UNCHANGED << crawl >>

\* the first handler class of the list that accepts the response type, 0 if
\* there is none
Accepting(l, content_type) ==
    IF \E i \in 1..Len(l) : accepts(l[i], content_type) = "True"
    THEN CHOOSE i \in 1..Len(l) :
             /\ accepts(l[i], content_type) = "True"
             /\ \A k \in 1..(i - 1) : accepts(l[k], content_type) # "True"
    ELSE 0

\* the loop over job.handler: accepts of the first class raises if there is
\* no response type; the first class that accepts analyzes the job, and its
\* analyze returns some content (analyzed records what it returned) or raises;
\* if no class accepts, the content is the response's bytes
SelectHandler ==
    /\ worker.pc = "handler"
    /\ IF worker.handler # << >> /\ worker.response_type = "None"
       THEN worker' = [worker EXCEPT !.handler_class = worker.handler[1],
                                     !.returned = "raise", !.pc = "done"]
       ELSE IF Accepting(worker.handler, worker.response_type) # 0
       THEN \/ \E c \in Contents :
                 worker' = [worker EXCEPT
                     !.handler_class =
                         worker.handler[Accepting(worker.handler,
                                                  worker.response_type)],
                     !.analyzed = c, !.content = c, !.pc = "path"]
            \/ worker' = [worker EXCEPT
                     !.handler_class =
                         worker.handler[Accepting(worker.handler,
                                                  worker.response_type)],
                     !.returned = "raise", !.pc = "done"]
       ELSE worker' = [worker EXCEPT
                     !.handler_class =
                         IF worker.handler = << >> THEN "None"
                         ELSE worker.handler[Len(worker.handler)],
                     !.content = "bytes", !.pc = "path"]
    /\ UNCHANGED << crawl >>

\* the path of the file below local_base: the URL's path, lowered if asked
\* for, without its first '/' (the test len(path) == "" is never true)
RelativePath(path) ==
    LET folded == IF "lowered" \in options THEN lower(path) ELSE path
    IN  IF StartsWithSlash(folded) THEN Tail(folded) ELSE folded

\* local_path as run computes it
LocalPath(local_base, path) ==
    LET joined == join(local_base, RelativePath(path))
    IN  IF EndsWithSlash(joined) THEN join(joined, <<"index.html">>)
                                 ELSE joined

\* the rest of run: problems with the content are logged, local_path is
\* computed (with ascii_only the name helper is not defined: NameError) and
\* set, save is called (its result only logged), the job is finished and run
\* returns True
StoreContent ==
    /\ worker.pc = "path"
    /\ IF "ascii_only" \in options
       THEN worker' = [worker EXCEPT !.returned = "raise", !.pc = "done"]
       ELSE LET saved == save([worker.job EXCEPT !.local_path = "set"],
                              worker.file) IN
            worker' =
                IF saved.result = "raise"
                THEN [worker EXCEPT
                         !.job = saved.job, !.file = saved.file,
                         !.local_path = LocalPath(worker.local_base,
                                                  worker.job.remote_url.path),
                         !.returned = "raise", !.pc = "done"]
                ELSE [worker EXCEPT
                         !.job = [saved.job EXCEPT !.finished = TRUE],
                         !.file = saved.file,
                         !.local_path = LocalPath(worker.local_base,
                                                  worker.job.remote_url.path),
                         !.returned = "True", !.pc = "done"]
    /\ UNCHANGED << crawl >>

\* the part of one DownloadProcessor.run that follows a 200 response
StoreSpec ==
    StoreInit /\ [][ResponseType \/ SelectHandler \/ StoreContent]_vars

\* C36: for a 200 response without a Content-Type header run does not raise:
\* the job has a response type (guessed from the file name's extension), a
\* handler's result or the raw bytes are the content, and the job is finished
C36_NoContentTypeDoesNotRaise ==
    (worker.pc = "done" /\ worker.headers = "None" /\ options = {})
        => /\ worker.returned = "True"
           /\ worker.job.finished
           /\ worker.response_type # "None"

\* C37: when the selected handler returned None or a value that is neither
\* text nor bytes, run does not raise and the content to persist is the raw
\* bytes of the response
C37_BadHandlerResultFallsBackToBytes ==
    (worker.pc = "done" /\ worker.analyzed \in {"None", "other"}
                        /\ options = {})
        => /\ worker.returned = "True"
           /\ worker.content = "bytes"

\* C38: the local_path that run computes is the mirror root joined with the
\* URL's path without its leading '/', where index.html stands for an empty
\* path and follows a path that ends in '/'; it never ends in '/'
C38_LocalPathBelowMirrorRoot ==
    (worker.pc = "done" /\ worker.local_path # << >>)
        => LET stripped == RelativePath(worker.job.remote_url.path)
               name == IF stripped = << >> THEN <<"index.html">>
                       ELSE IF EndsWithSlash(stripped)
                       THEN stripped \o <<"index.html">>
                       ELSE stripped
               root == IF EndsWithSlash(worker.local_base)
                       THEN worker.local_base
                       ELSE worker.local_base \o <<"/">>
           IN  /\ worker.local_path = root \o name
               /\ ~EndsWithSlash(worker.local_path)

====
